---- MODULE Spec2Model ----
(***************************************************************************)
(* Payment-to-enrollment bridge (src/src/index.ts).                        *)
(*                                                                         *)
(* The server is stateless: the durable state is the data store (tables    *)
(* enrollments, payments, courses) and the payment processor's checkout    *)
(* sessions.  Every HTTP request is one handler invocation; a handler is   *)
(* an async function, so it runs atomically from one `await` to the next.  *)
(* One action below is one such stretch: the awaited collaborator call     *)
(* together with the handler code that runs on its result, up to the next  *)
(* await or to the response.                                               *)
(*                                                                         *)
(* A JavaScript number n (a price or an amount in currency units) is       *)
(* represented by the integer 1000 * n, so 49.99 is 49990.  Cents are      *)
(* plain integers.                                                         *)
(***************************************************************************)
EXTENDS Integers, FiniteSets, Sequences, TLC

\* Number of requests the server receives in a behaviour.
MaxReq == 2

Reqs == 1..MaxReq

VARIABLES
    enrollments,   \* table enrollments: rows {id, student_id, course_id, status}
    payments,      \* table payments: rows {id, enrollment_id, amount, payment_method, transaction_id, status}
    sessions,      \* the processor's checkout sessions
    req            \* req[r]: the handler invocation serving request r

vars == <<enrollments, payments, sessions, req>>

----------------------------------------------------------------------------
\* Values

\* A metadata key that the session does not carry.
Absent == "<absent>"

\* `coursePrice === undefined` in the request body.
PriceUndefined == -1

\* req.headers['stripe-signature']: missing, present but rejected by
\* constructEvent, present and accepted.
Signatures == {"none", "invalid", "valid"}

EventTypes == {"checkout.session.completed", "payment_intent.created"}

\* Table courses (read-only for the server).
Courses ==
    { [id |-> "c1", price |-> 49990],
      [id |-> "c0", price |-> 0] }

\* Request-body values; "" is a missing (falsy) field.
BodyUsers   == {"u1", ""}
BodyCourses == {"c1", "c0", "cX", ""}
BodyTitles  == {"Course", ""}
BodyPrices  == {PriceUndefined, 0, 49990}

\* Sessions present in the processor account when the server starts.
\* cs_a and cs_b are two paid purchases of c1 by u1, cs_u is not paid yet,
\* cs_x is paid but carries no userId in its metadata.
InitialSessions ==
    { [id |-> "cs_a", payment_status |-> "paid", amount_total |-> 4999,
       metadata |-> [courseId |-> "c1", userId |-> "u1"]],
      [id |-> "cs_b", payment_status |-> "paid", amount_total |-> 4999,
       metadata |-> [courseId |-> "c1", userId |-> "u1"]],
      [id |-> "cs_u", payment_status |-> "unpaid", amount_total |-> 4999,
       metadata |-> [courseId |-> "c1", userId |-> "u1"]],
      [id |-> "cs_x", payment_status |-> "paid", amount_total |-> 4999,
       metadata |-> [courseId |-> "c1", userId |-> Absent]] }

\* A payload that did not come from the processor.
ForgedSessions ==
    { [id |-> "cs_forged", payment_status |-> "paid", amount_total |-> 4999,
       metadata |-> [courseId |-> "c1", userId |-> "u1"]] }

----------------------------------------------------------------------------
\* Conversions

\* amount_total / 100: cents to currency units.
CentsToAmount(cents) == cents * 10

\* Math.round(coursePrice * 100): currency units to cents, halves up.
UnitAmount(coursePrice) == (coursePrice + 5) \div 10

----------------------------------------------------------------------------
\* A handler invocation

IdleReq ==
    [ kind         |-> "idle",
      pc           |-> "idle",
      sig          |-> "none",
      evtype       |-> "",
      payload      |-> "",
      userId       |-> "",
      courseId     |-> "",
      courseTitle  |-> "",
      coursePrice  |-> PriceUndefined,
      amount       |-> 0,
      sessionId    |-> "",
      existing     |-> 0,      \* existingEnrollment.id, 0 when null
      called       |-> FALSE,  \* createEnrollmentWithPayment was invoked
      result       |-> "none", \* of createEnrollmentWithPayment: returned / threw
      storeErr     |-> "",     \* the store call of this invocation that failed
      procErr      |-> FALSE,  \* the processor call of this request threw
      conflict     |-> FALSE,  \* the enrollment insert was rejected while a
                               \* row of the same pair was in the store
      enrollmentId |-> 0,      \* id of the enrollment returned
      nEnrIns      |-> 0,      \* rows this invocation inserted into enrollments
      nPayIns      |-> 0,      \* rows this invocation inserted into payments
      status       |-> 0,      \* HTTP status of the response, 0 before it
      body         |-> "",
      paymentStatus |-> "",    \* paymentStatus field of the response body
      nResp        |-> 0 ]     \* responses sent

InFlight(s) == s.pc \notin {"idle", "done"}

\* res.status(status).json(body) / .send(body)
Respond(s, status, body) ==
    [s EXCEPT !.pc = "done", !.status = status, !.body = body, !.nResp = @ + 1]

----------------------------------------------------------------------------
\* The data store

\* Mutant of EnrollmentRows: the course column is compared with the user id.
EnrollmentRowsWrongColumn(userId, courseId) ==
    {e \in enrollments : e.student_id = userId /\ e.course_id = userId}

\* Mutant of EnrollmentRows: the filter on the student is left out.
EnrollmentRowsByCourseOnly(userId, courseId) ==
    {e \in enrollments : e.course_id = courseId}

\* .from('enrollments').select('id').eq('student_id', userId).eq('course_id', courseId)
EnrollmentRows(userId, courseId) ==
    {e \in enrollments : e.student_id = userId /\ e.course_id = courseId}

\* .from('payments').select('id').eq('enrollment_id', id).eq('transaction_id', sessionId)
PaymentRows(enrollmentId, sessionId) ==
    {p \in payments : p.enrollment_id = enrollmentId /\ p.transaction_id = sessionId}

\* .maybeSingle(): no row is null, one row is that row, several rows are an
\* error; `fail` is the call failing for any other reason.
MaybeSingle(rows, fail) ==
    IF fail \/ Cardinality(rows) > 1 THEN [error |-> TRUE, id |-> 0]
    ELSE IF rows = {} THEN [error |-> FALSE, id |-> 0]
    ELSE [error |-> FALSE, id |-> (CHOOSE x \in rows : TRUE).id]

\* The row inserted into enrollments; the store assigns the id.
NewEnrollment(userId, courseId) ==
    [ id         |-> Cardinality(enrollments) + 1,
      student_id |-> userId,
      course_id  |-> courseId,
      status     |-> "active" ]

\* The row inserted into payments; the store assigns the id.
NewPayment(enrollmentId, amount, sessionId) ==
    [ id             |-> Cardinality(payments) + 1,
      enrollment_id  |-> enrollmentId,
      amount         |-> amount,
      payment_method |-> "stripe",
      transaction_id |-> sessionId,
      status         |-> "completed" ]

----------------------------------------------------------------------------
\* createEnrollmentWithPayment as seen by its three callers

\* The call itself: the function runs up to its first await.
CallReconcile(s, userId, courseId, amount, sessionId) ==
    [s EXCEPT !.pc = "r_lookup", !.called = TRUE, !.userId = userId,
              !.courseId = courseId, !.amount = amount, !.sessionId = sessionId]

\* The caller's code after the function returned the enrollment `id`.
OnReturn(s, id) ==
    LET t == [s EXCEPT !.result = "returned", !.enrollmentId = id]
    IN  CASE s.kind = "webhook" -> Respond(t, 200, "received")
          [] s.kind = "verify"  -> Respond(t, 200, "success")
          [] OTHER              -> Respond(t, 200, "enrolled")

\* Mutant of OnThrow: the webhook reports the failure to the processor.
OnThrowWebhookFails(s) ==
    LET t == [s EXCEPT !.result = "threw"]
    IN  CASE s.kind = "webhook" -> Respond(t, 500, "Failed to process enrollment")
          [] s.kind = "verify"  -> Respond(t, 500, "Failed to create enrollment record")
          [] OTHER              -> Respond(t, 500, "Failed to create enrollment")

\* Mutant of OnThrow: verification has no inner catch, so the failure
\* reaches the handler's outer catch.
OnThrowVerifyGeneric(s) ==
    LET t == [s EXCEPT !.result = "threw"]
    IN  CASE s.kind = "webhook" -> Respond(t, 200, "received")
          [] s.kind = "verify"  -> Respond(t, 500, "Failed to verify payment")
          [] OTHER              -> Respond(t, 500, "Failed to create enrollment")

\* Mutant of OnThrow: the webhook's catch block returns without
\* acknowledging the event.
OnThrowWebhookSilent(s) ==
    LET t == [s EXCEPT !.result = "threw"]
    IN  CASE s.kind = "webhook" -> [t EXCEPT !.pc = "done"]
          [] s.kind = "verify"  -> Respond(t, 500, "Failed to create enrollment record")
          [] OTHER              -> Respond(t, 500, "Failed to create enrollment")

\* The caller's catch block after the function threw.
OnThrow(s) ==
    LET t == [s EXCEPT !.result = "threw"]
    IN  CASE s.kind = "webhook" -> Respond(t, 200, "received")
          [] s.kind = "verify"  -> Respond(t, 500, "Failed to create enrollment record")
          [] OTHER              -> Respond(t, 500, "Failed to create enrollment")

\* Mutant of AfterLookup: a failed lookup is taken for "not enrolled".
AfterLookupIgnoresError(s, res) ==
    IF res.id # 0 THEN [s EXCEPT !.pc = "r_paycheck", !.existing = res.id]
    ELSE [s EXCEPT !.pc = "r_insert"]

\* After the enrollment lookup.
AfterLookup(s, res) ==
    IF res.error THEN OnThrow(s)
    ELSE IF res.id # 0 THEN [s EXCEPT !.pc = "r_paycheck", !.existing = res.id]
    ELSE [s EXCEPT !.pc = "r_insert"]

\* Mutant of ShouldCreatePayment: an enrolled user is taken to have paid.
ShouldCreatePaymentNever(existingPayment, amount) ==
    FALSE

\* Mutant of ShouldCreatePayment: the existing payment is not looked at.
ShouldCreatePaymentAlways(existingPayment, amount) ==
    amount > 0

\* `!existingPayment && amount > 0`
ShouldCreatePayment(existingPayment, amount) ==
    existingPayment = 0 /\ amount > 0

\* After the payment lookup of the already-enrolled branch.
AfterPaymentCheck(s, res) ==
    IF res.error THEN OnThrow(s)
    ELSE IF ShouldCreatePayment(res.id, s.amount) THEN [s EXCEPT !.pc = "r_payins"]
    ELSE OnReturn(s, s.existing)

\* Mutant of AfterExistingPaymentInsert: the already-enrolled branch does
\* not return, and runs on into the insert of a new enrollment.
AfterExistingPaymentInsertFallsThrough(s, fail) ==
    IF fail THEN OnThrow(s) ELSE [s EXCEPT !.pc = "r_insert"]

\* After the payment insert of the already-enrolled branch.
AfterExistingPaymentInsert(s, fail) ==
    IF fail THEN OnThrow(s) ELSE OnReturn(s, s.existing)

\* Mutant of AfterEnrollmentInsert: the payment insert is not guarded by
\* `amount > 0`.
AfterEnrollmentInsertAlwaysPays(s, fail, id) ==
    IF fail THEN OnThrow(s)
    ELSE [s EXCEPT !.enrollmentId = id, !.pc = "r_newpay"]

\* After the enrollment insert: `amount > 0` leads to the payment insert.
AfterEnrollmentInsert(s, fail, id) ==
    IF fail THEN OnThrow(s)
    ELSE LET t == [s EXCEPT !.enrollmentId = id]
         IN  IF s.amount > 0 THEN [t EXCEPT !.pc = "r_newpay"]
             ELSE OnReturn(t, id)

\* Mutant of AfterNewPaymentInsert: the error is thrown as in the other branch.
AfterNewPaymentInsertThrows(s, fail) ==
    IF fail THEN OnThrow(s) ELSE OnReturn(s, s.enrollmentId)

\* After the payment insert of the new-enrollment branch: the error is
\* logged, not thrown.
AfterNewPaymentInsert(s, fail) ==
    OnReturn(s, s.enrollmentId)

----------------------------------------------------------------------------
\* What the store did for invocation s: the call `at` failed, or it
\* inserted `e` enrollment rows and `p` payment rows.
Outcome(s, err, at, e, p) ==
    IF err THEN [s EXCEPT !.storeErr = at]
    ELSE [s EXCEPT !.nEnrIns = @ + e, !.nPayIns = @ + p]

----------------------------------------------------------------------------
\* The handlers' code up to their first await

\* Mutant of ConstructEventOK: any signature is accepted.
ConstructEventAcceptsAny(sig) == TRUE

\* stripe.webhooks.constructEvent(payload, sig, endpointSecret) returns the
\* event; it throws unless the signature matches the payload and the secret.
ConstructEventOK(sig) == sig = "valid"

\* Mutant of WebhookEnrolls: the metadata is not tested.
WebhookEnrollsAnyMetadata(type, session) ==
    /\ type = "checkout.session.completed"
    /\ session.payment_status = "paid"

\* The three nested conditions under which the webhook enrolls.
WebhookEnrolls(type, session) ==
    /\ type = "checkout.session.completed"
    /\ session.payment_status = "paid"
    /\ session.metadata.courseId # Absent
    /\ session.metadata.userId # Absent

\* Mutant of WebhookHandler: the payment is recorded under the payment
\* intent of the session instead of the session id.
WebhookHandlerIntentReference(s, session) ==
    IF s.sig = "none" THEN Respond(s, 400, "Missing stripe-signature header")
    ELSE IF ~ConstructEventOK(s.sig) THEN Respond(s, 400, "Webhook Error")
    ELSE IF WebhookEnrolls(s.evtype, session)
         THEN CallReconcile(s, session.metadata.userId, session.metadata.courseId,
                            CentsToAmount(session.amount_total), "pi_" \o session.id)
         ELSE Respond(s, 200, "received")

\* POST /api/stripe-webhook
WebhookHandler(s, session) ==
    IF s.sig = "none" THEN Respond(s, 400, "Missing stripe-signature header")
    ELSE IF ~ConstructEventOK(s.sig) THEN Respond(s, 400, "Webhook Error")
    ELSE IF WebhookEnrolls(s.evtype, session)
         THEN CallReconcile(s, session.metadata.userId, session.metadata.courseId,
                            CentsToAmount(session.amount_total), session.id)
         ELSE Respond(s, 200, "received")

\* session.metadata?.key || ''
MetadataOrEmpty(v) == IF v = Absent THEN "" ELSE v

\* Mutant of VerifyHandler: the payment status is not looked at.
VerifyHandlerIgnoresStatus(s, found) ==
    IF found = {} THEN Respond(s, 500, "Failed to verify payment")
    ELSE LET session == CHOOSE x \in found : TRUE
         IN  CallReconcile(s,
                 MetadataOrEmpty(session.metadata.userId),
                 MetadataOrEmpty(session.metadata.courseId),
                 IF session.amount_total # 0
                     THEN CentsToAmount(session.amount_total) ELSE 0,
                 s.sessionId)

\* GET /api/verify-payment/:sessionId after stripe.checkout.sessions.retrieve:
\* `found` holds the session, or nothing when the call threw.
VerifyHandler(s, found) ==
    IF found = {} THEN Respond(s, 500, "Failed to verify payment")
    ELSE LET session == CHOOSE x \in found : TRUE
         IN  IF session.payment_status = "paid"
             THEN CallReconcile(s,
                      MetadataOrEmpty(session.metadata.userId),
                      MetadataOrEmpty(session.metadata.courseId),
                      IF session.amount_total # 0
                          THEN CentsToAmount(session.amount_total) ELSE 0,
                      s.sessionId)
             ELSE Respond([s EXCEPT !.paymentStatus = session.payment_status],
                          200, "Payment not completed")

\* `!userId || !courseId`
FreeMissing(userId, courseId) == userId = "" \/ courseId = ""

\* Mutant of FreeHandler: the price is not checked.
FreeHandlerNoGate(s, rows, fail) ==
    IF fail \/ Cardinality(rows) # 1 THEN Respond(s, 500, "Failed to verify course")
    ELSE CallReconcile(s, s.userId, s.courseId, 0, "free-enrollment")

\* POST /api/create-free-enrollment after the course lookup (.single():
\* anything but exactly one row is an error).
FreeHandler(s, rows, fail) ==
    IF fail \/ Cardinality(rows) # 1 THEN Respond(s, 500, "Failed to verify course")
    ELSE LET courseData == CHOOSE c \in rows : TRUE
         IN  IF courseData.price > 0 THEN Respond(s, 400, "This is not a free course")
             ELSE CallReconcile(s, s.userId, s.courseId, 0, "free-enrollment")

\* Mutant of CheckoutMissing: the price is tested like the other fields,
\* `!coursePrice`.
CheckoutMissingFalsyPrice(courseId, courseTitle, coursePrice, userId) ==
    \/ courseId = "" \/ courseTitle = "" \/ userId = ""
    \/ coursePrice = PriceUndefined \/ coursePrice = 0

\* `!courseId || !courseTitle || coursePrice === undefined || !userId`
CheckoutMissing(courseId, courseTitle, coursePrice, userId) ==
    courseId = "" \/ courseTitle = "" \/ coursePrice = PriceUndefined \/ userId = ""

\* The session stripe.checkout.sessions.create makes; the processor assigns its id.
NewSession(s) ==
    [ id             |-> "cs_new" \o ToString(Cardinality(sessions)),
      payment_status |-> "unpaid",
      amount_total   |-> UnitAmount(s.coursePrice),
      metadata       |-> [courseId |-> s.courseId, userId |-> s.userId] ]

----------------------------------------------------------------------------
\* Actions

Init ==
    /\ enrollments = {}
    /\ payments = {}
    /\ sessions = InitialSessions
    /\ req = [r \in Reqs |-> IdleReq]

\* Requests are numbered in the order they arrive.
Arrives(r) ==
    /\ req[r].pc = "idle"
    /\ \A q \in 1..(r - 1) : req[q].pc # "idle"

PostWebhook(r) ==
    /\ Arrives(r)
    /\ \E sig \in Signatures, type \in EventTypes, session \in sessions \cup ForgedSessions :
         \* the processor signs its own sessions; any other sender's payload
         \* is the forged one
         /\ (sig = "valid") <=> (session \in sessions)
         /\ req' = [req EXCEPT ![r] =
                WebhookHandler([IdleReq EXCEPT !.kind = "webhook", !.sig = sig,
                                               !.evtype = type, !.payload = session.id],
                               session)]
    /\ UNCHANGED <<enrollments, payments, sessions>>

GetVerifyPayment(r) ==
    /\ Arrives(r)
    /\ \E sessionId \in {x.id : x \in sessions} \cup {"cs_none"} :
         req' = [req EXCEPT ![r] =
                [IdleReq EXCEPT !.kind = "verify", !.pc = "v_retrieve",
                                !.sessionId = sessionId]]
    /\ UNCHANGED <<enrollments, payments, sessions>>

RetrieveSession(r) ==
    /\ req[r].pc = "v_retrieve"
    /\ \E fail \in BOOLEAN :
         LET found == IF fail THEN {} ELSE {x \in sessions : x.id = req[r].sessionId}
         IN  req' = [req EXCEPT ![r] =
                    VerifyHandler([req[r] EXCEPT !.procErr = (found = {})], found)]
    /\ UNCHANGED <<enrollments, payments, sessions>>

PostFreeEnrollment(r) ==
    /\ Arrives(r)
    /\ \E userId \in BodyUsers, courseId \in BodyCourses :
         LET s == [IdleReq EXCEPT !.kind = "free", !.userId = userId, !.courseId = courseId]
         IN  req' = [req EXCEPT ![r] =
                IF FreeMissing(userId, courseId)
                    THEN Respond(s, 400, "Missing required parameters")
                    ELSE [s EXCEPT !.pc = "f_course"]]
    /\ UNCHANGED <<enrollments, payments, sessions>>

FetchCourse(r) ==
    /\ req[r].pc = "f_course"
    /\ \E fail \in BOOLEAN :
         LET rows == {c \in Courses : c.id = req[r].courseId}
             err  == fail \/ Cardinality(rows) # 1
         IN  req' = [req EXCEPT ![r] =
                    FreeHandler(Outcome(req[r], err, "course", 0, 0), rows, err)]
    /\ UNCHANGED <<enrollments, payments, sessions>>

PostCheckout(r) ==
    /\ Arrives(r)
    /\ \E courseId \in {"c1", ""}, courseTitle \in BodyTitles,
          coursePrice \in BodyPrices, userId \in BodyUsers :
         \* bodies with at most one field missing
         /\ Cardinality({f \in {"courseId", "courseTitle", "coursePrice", "userId"} :
                \/ f = "courseId" /\ courseId = ""
                \/ f = "courseTitle" /\ courseTitle = ""
                \/ f = "coursePrice" /\ coursePrice = PriceUndefined
                \/ f = "userId" /\ userId = ""}) <= 1
         /\ LET s == [IdleReq EXCEPT !.kind = "checkout", !.userId = userId,
                                     !.courseId = courseId, !.courseTitle = courseTitle,
                                     !.coursePrice = coursePrice]
            IN  req' = [req EXCEPT ![r] =
                   IF CheckoutMissing(courseId, courseTitle, coursePrice, userId)
                       THEN Respond(s, 400, "Missing required parameters")
                       ELSE [s EXCEPT !.pc = "c_create"]]
    /\ UNCHANGED <<enrollments, payments, sessions>>

CreateSession(r) ==
    /\ req[r].pc = "c_create"
    /\ \E fail \in BOOLEAN :
         IF fail
         THEN /\ req' = [req EXCEPT ![r] =
                     Respond([req[r] EXCEPT !.procErr = TRUE],
                             500, "Failed to create checkout session")]
              /\ UNCHANGED sessions
         ELSE /\ sessions' = sessions \cup {NewSession(req[r])}
              /\ req' = [req EXCEPT ![r] =
                     Respond([req[r] EXCEPT !.sessionId = NewSession(req[r]).id],
                             200, "session")]
    /\ UNCHANGED <<enrollments, payments>>

\* createEnrollmentWithPayment: the enrollment lookup.
LookupEnrollment(r) ==
    /\ req[r].pc = "r_lookup"
    /\ \E fail \in BOOLEAN :
         LET res == MaybeSingle(EnrollmentRows(req[r].userId, req[r].courseId), fail)
         IN  req' = [req EXCEPT ![r] =
                    AfterLookup(Outcome(req[r], res.error, "lookup", 0, 0), res)]
    /\ UNCHANGED <<enrollments, payments, sessions>>

\* createEnrollmentWithPayment: the payment lookup of the already-enrolled branch.
LookupPayment(r) ==
    /\ req[r].pc = "r_paycheck"
    /\ \E fail \in BOOLEAN :
         LET res == MaybeSingle(PaymentRows(req[r].existing, req[r].sessionId), fail)
         IN  req' = [req EXCEPT ![r] =
                    AfterPaymentCheck(Outcome(req[r], res.error, "paylookup", 0, 0), res)]
    /\ UNCHANGED <<enrollments, payments, sessions>>

\* createEnrollmentWithPayment: the payment insert of the already-enrolled branch.
InsertPaymentExisting(r) ==
    /\ req[r].pc = "r_payins"
    /\ \E fail \in BOOLEAN :
         /\ payments' = IF fail THEN payments
                        ELSE payments \cup
                             {NewPayment(req[r].existing, req[r].amount, req[r].sessionId)}
         /\ req' = [req EXCEPT ![r] =
                AfterExistingPaymentInsert(Outcome(req[r], fail, "payins", 0, 1), fail)]
    /\ UNCHANGED <<enrollments, sessions>>

\* createEnrollmentWithPayment: the enrollment insert.
InsertEnrollment(r) ==
    /\ req[r].pc = "r_insert"
    /\ \E fail \in BOOLEAN :
         LET row  == NewEnrollment(req[r].userId, req[r].courseId)
             dup  == EnrollmentRows(req[r].userId, req[r].courseId) # {}
             s    == [req[r] EXCEPT !.conflict = fail /\ dup]
         IN  /\ enrollments' = IF fail THEN enrollments ELSE enrollments \cup {row}
             /\ req' = [req EXCEPT ![r] =
                    AfterEnrollmentInsert(Outcome(s, fail, "enrins", 1, 0), fail, row.id)]
    /\ UNCHANGED <<payments, sessions>>

\* Mutant of InsertPaymentNew: a failed payment insert rolls the new
\* enrollment back and throws.
InsertPaymentNewRollsBack(r) ==
    /\ req[r].pc = "r_newpay"
    /\ \E fail \in BOOLEAN :
         /\ payments' = IF fail THEN payments
                        ELSE payments \cup
                             {NewPayment(req[r].enrollmentId, req[r].amount, req[r].sessionId)}
         /\ enrollments' = IF fail
                           THEN {e \in enrollments : e.id # req[r].enrollmentId}
                           ELSE enrollments
         /\ req' = [req EXCEPT ![r] =
                IF fail THEN OnThrow(Outcome(req[r], fail, "newpay", 0, 1))
                ELSE AfterNewPaymentInsert(Outcome(req[r], fail, "newpay", 0, 1), fail)]
    /\ UNCHANGED sessions

\* createEnrollmentWithPayment: the payment insert of the new-enrollment branch.
InsertPaymentNew(r) ==
    /\ req[r].pc = "r_newpay"
    /\ \E fail \in BOOLEAN :
         /\ payments' = IF fail THEN payments
                        ELSE payments \cup
                             {NewPayment(req[r].enrollmentId, req[r].amount, req[r].sessionId)}
         /\ req' = [req EXCEPT ![r] =
                AfterNewPaymentInsert(Outcome(req[r], fail, "newpay", 0, 1), fail)]
    /\ UNCHANGED <<enrollments, sessions>>

\* The customer completes a checkout at the processor.
CustomerPays ==
    /\ \E x \in sessions :
         /\ x.payment_status = "unpaid"
         /\ sessions' = (sessions \ {x}) \cup {[x EXCEPT !.payment_status = "paid"]}
    /\ UNCHANGED <<enrollments, payments, req>>

Next ==
    \/ \E r \in Reqs : PostWebhook(r)
    \/ \E r \in Reqs : GetVerifyPayment(r)
    \/ \E r \in Reqs : RetrieveSession(r)
    \/ \E r \in Reqs : PostFreeEnrollment(r)
    \/ \E r \in Reqs : FetchCourse(r)
    \/ \E r \in Reqs : PostCheckout(r)
    \/ \E r \in Reqs : CreateSession(r)
    \/ \E r \in Reqs : LookupEnrollment(r)
    \/ \E r \in Reqs : LookupPayment(r)
    \/ \E r \in Reqs : InsertPaymentExisting(r)
    \/ \E r \in Reqs : InsertEnrollment(r)
    \/ \E r \in Reqs : InsertPaymentNew(r)
    \/ CustomerPays

Spec == Init /\ [][Next]_vars

\* The same server when no two requests overlap: a request arrives only
\* after every earlier one has been answered.
NoneInFlight == \A q \in Reqs : ~InFlight(req[q])

NextSeq ==
    \/ NoneInFlight /\ \E r \in Reqs : PostWebhook(r)
    \/ NoneInFlight /\ \E r \in Reqs : GetVerifyPayment(r)
    \/ NoneInFlight /\ \E r \in Reqs : PostFreeEnrollment(r)
    \/ NoneInFlight /\ \E r \in Reqs : PostCheckout(r)
    \/ \E r \in Reqs : RetrieveSession(r)
    \/ \E r \in Reqs : FetchCourse(r)
    \/ \E r \in Reqs : CreateSession(r)
    \/ \E r \in Reqs : LookupEnrollment(r)
    \/ \E r \in Reqs : LookupPayment(r)
    \/ \E r \in Reqs : InsertPaymentExisting(r)
    \/ \E r \in Reqs : InsertEnrollment(r)
    \/ \E r \in Reqs : InsertPaymentNew(r)
    \/ CustomerPays

SpecSeq == Init /\ [][NextSeq]_vars

\* The same server over a store whose enrollments table has a uniqueness
\* constraint on (student_id, course_id): an insert that would leave two
\* rows for one pair is rejected, which the code sees as enrollmentError.
InsertEnrollmentUnique(r) ==
    /\ InsertEnrollment(r)
    /\ \A e1, e2 \in enrollments' :
          (e1.student_id = e2.student_id /\ e1.course_id = e2.course_id) => e1 = e2

NextUnique ==
    \/ \E r \in Reqs : PostWebhook(r)
    \/ \E r \in Reqs : GetVerifyPayment(r)
    \/ \E r \in Reqs : RetrieveSession(r)
    \/ \E r \in Reqs : PostFreeEnrollment(r)
    \/ \E r \in Reqs : FetchCourse(r)
    \/ \E r \in Reqs : PostCheckout(r)
    \/ \E r \in Reqs : CreateSession(r)
    \/ \E r \in Reqs : LookupEnrollment(r)
    \/ \E r \in Reqs : LookupPayment(r)
    \/ \E r \in Reqs : InsertPaymentExisting(r)
    \/ \E r \in Reqs : InsertEnrollmentUnique(r)
    \/ \E r \in Reqs : InsertPaymentNew(r)
    \/ CustomerPays

SpecUnique == Init /\ [][NextUnique]_vars

\* The pending call of request r returns or errors, and the handler runs
\* on to its next await or to its response.
Continue(r) ==
    \/ RetrieveSession(r)
    \/ FetchCourse(r)
    \/ CreateSession(r)
    \/ LookupEnrollment(r)
    \/ LookupPayment(r)
    \/ InsertPaymentExisting(r)
    \/ InsertEnrollment(r)
    \/ InsertPaymentNew(r)

\* The server when every call to the processor and to the store
\* eventually returns or errors.
SpecFair == Spec /\ \A r \in Reqs : WF_vars(Continue(r))

----------------------------------------------------------------------------
\* Vocabulary of the properties

\* The Enrollments of a (student, course) pair.
EnrollmentsOf(u, c) ==
    {e \in enrollments : e.student_id = u /\ e.course_id = c}

\* The Payments of an (enrollment id, transaction reference) pair.
PaymentsOf(id, ref) ==
    {p \in payments : p.enrollment_id = id /\ p.transaction_id = ref}

\* The Payments recorded for the Enrollments of a (student, course) pair.
PaymentsOfPair(u, c) ==
    {p \in payments : \E e \in EnrollmentsOf(u, c) : p.enrollment_id = e.id}

\* Invocation s ran createEnrollmentWithPayment to its end.
Reconciled(s) == s.called /\ s.pc = "done"

\* ... and none of its store calls failed.
ReconciledClean(s) == Reconciled(s) /\ s.storeErr = ""

SamePair(s, t) == s.userId = t.userId /\ s.courseId = t.courseId

----------------------------------------------------------------------------
\* Properties

\* C1: in every reachable state the enrollment store holds at most one
\* Enrollment per (student, course) pair, whatever the interleaving of the
\* reconciler's store calls.
C1_OneEnrollmentPerPair ==
    \A e1, e2 \in enrollments :
        (e1.student_id = e2.student_id /\ e1.course_id = e2.course_id) => e1 = e2

\* C2: in every reachable state the payment store holds at most one Payment
\* per (enrollment id, transaction reference) pair, whatever the interleaving.
C2_OnePaymentPerEnrollmentAndRef ==
    \A p1, p2 \in payments :
        (p1.enrollment_id = p2.enrollment_id /\ p1.transaction_id = p2.transaction_id)
            => p1 = p2

\* Requests r1 and r2 are the only ones that invoked the reconciler for the
\* pair of r1.
OnlyCallers(r1, r2) ==
    \A q \in Reqs \ {r1, r2} : ~(req[q].called /\ SamePair(req[q], req[r1]))

\* C3: when no store call fails, two reconciler runs in sequence for the same
\* (userId, courseId) with different payment references leave exactly one
\* Enrollment for the pair, the second run inserting none, and at most two
\* Payments.
C3_TwoReferencesOneEnrollment ==
    \A r1, r2 \in Reqs :
        ( /\ r1 < r2
          /\ ReconciledClean(req[r1]) /\ ReconciledClean(req[r2])
          /\ SamePair(req[r1], req[r2])
          /\ req[r1].sessionId # req[r2].sessionId )
        => /\ Cardinality(EnrollmentsOf(req[r1].userId, req[r1].courseId)) = 1
           /\ req[r2].nEnrIns = 0
           /\ OnlyCallers(r1, r2) =>
                 Cardinality(PaymentsOfPair(req[r1].userId, req[r1].courseId)) <= 2

\* Two paid runs with different references have completed one after the
\* other and each recorded its Payment.
C3_Witness ==
    \E r1, r2 \in Reqs :
        /\ r1 < r2
        /\ ReconciledClean(req[r1]) /\ ReconciledClean(req[r2])
        /\ SamePair(req[r1], req[r2])
        /\ req[r1].sessionId # req[r2].sessionId
        /\ Cardinality(PaymentsOfPair(req[r1].userId, req[r1].courseId)) = 2

\* Two reconciler runs with identical arguments.
SameCall(s, t) ==
    SamePair(s, t) /\ s.amount = t.amount /\ s.sessionId = t.sessionId

\* What C4 promises after the runs r1 and r2: one Enrollment, `n` Payments
\* for it and the reference, and no insert by r2.
RepeatedCallResult(r1, r2, n) ==
    /\ Cardinality(EnrollmentsOf(req[r1].userId, req[r1].courseId)) = 1
    /\ \A e \in EnrollmentsOf(req[r1].userId, req[r1].courseId) :
           Cardinality(PaymentsOf(e.id, req[r1].sessionId)) = n
    /\ req[r2].nEnrIns = 0
    /\ req[r2].nPayIns = 0

\* C4 as stated: two reconciler runs in sequence with identical (userId,
\* courseId, amount, paymentReference) yield exactly one Enrollment and
\* exactly one Payment, the second run inserting nothing.  It is read here
\* in its most favourable sense, for runs without any store failure.
C4_AsStated ==
    \A r1, r2 \in Reqs :
        ( /\ r1 < r2
          /\ ReconciledClean(req[r1]) /\ ReconciledClean(req[r2])
          /\ SameCall(req[r1], req[r2]) )
        => RepeatedCallResult(r1, r2, 1)

\* C4 (amended): when no store call fails, two reconciler runs in sequence
\* with identical arguments yield exactly one Enrollment and, for amount > 0,
\* exactly one Payment for (enrollment, reference), none for amount = 0; the
\* second run inserts nothing.
C4_RepetitionSafety ==
    \A r1, r2 \in Reqs :
        ( /\ r1 < r2
          /\ ReconciledClean(req[r1]) /\ ReconciledClean(req[r2])
          /\ SameCall(req[r1], req[r2]) )
        => RepeatedCallResult(r1, r2, IF req[r1].amount > 0 THEN 1 ELSE 0)

\* A paid run was repeated with the same reference and the second run found
\* the Payment of the first.
C4_Witness ==
    \E r1, r2 \in Reqs :
        /\ r1 < r2
        /\ ReconciledClean(req[r1]) /\ ReconciledClean(req[r2])
        /\ SameCall(req[r1], req[r2])
        /\ req[r1].amount > 0
        /\ req[r1].nPayIns = 1
        /\ req[r2].existing # 0

\* C5: a failed Payment insert never makes the reconciler fail, in either
\* branch: the Enrollment is still returned to the caller.
C5_PaymentFailureSwallowed ==
    \A r \in Reqs :
        req[r].storeErr \in {"payins", "newpay"} => req[r].result = "returned"

\* C6: when the Payment insert fails for an Enrollment this run has just
\* created, the run still returns that Enrollment as a success, the
\* Enrollment stays in the store, and the run has recorded no Payment; the
\* failing step changes neither store.
C6_PartialFailureIsolation ==
    /\ [](\A r \in Reqs :
            req[r].storeErr = "newpay" =>
                /\ req[r].result = "returned"
                /\ req[r].status = 200
                /\ req[r].nEnrIns = 1
                /\ req[r].nPayIns = 0
                /\ [id |-> req[r].enrollmentId, student_id |-> req[r].userId,
                    course_id |-> req[r].courseId, status |-> "active"] \in enrollments)
    /\ [][\A r \in Reqs :
            (req[r].pc = "r_newpay" /\ req'[r].storeErr = "newpay") =>
                (enrollments' = enrollments /\ payments' = payments)]_vars

\* A verify-payment request created the Enrollment, lost the Payment insert
\* and answered with success.
C6_Witness ==
    \E r \in Reqs :
        /\ req[r].kind = "verify"
        /\ req[r].storeErr = "newpay"
        /\ req[r].body = "success"
        /\ payments = {}
        /\ enrollments # {}

\* C7: a failure of the enrollment lookup, of the payment lookup or of the
\* Enrollment insert makes the reconciler throw, and the run has then
\* inserted nothing; the failing step changes neither store.
C7_PrimaryFailurePropagates ==
    /\ [](\A r \in Reqs :
            req[r].storeErr \in {"lookup", "paylookup", "enrins"} =>
                /\ req[r].result = "threw"
                /\ req[r].pc = "done"
                /\ req[r].nEnrIns = 0
                /\ req[r].nPayIns = 0)
    /\ [][\A r \in Reqs :
            (req[r].storeErr = "" /\
             req'[r].storeErr \in {"lookup", "paylookup", "enrins"}) =>
                (enrollments' = enrollments /\ payments' = payments)]_vars

\* The Enrollment insert of a verify-payment request failed and the
\* request was answered with the enrollment-failed error.
C7_Witness ==
    \E r \in Reqs :
        /\ req[r].storeErr = "enrins"
        /\ req[r].kind = "verify"
        /\ req[r].status = 500
        /\ enrollments = {}

\* C8: a webhook delivery without a signature header, or whose signature
\* is rejected, is answered with 400 and never reaches the reconciler; it
\* leaves both stores as they were, whatever the payload.
C8_UnverifiedWebhookRejected ==
    /\ [](\A r \in Reqs :
            (req[r].kind = "webhook" /\ req[r].sig # "valid") =>
                /\ req[r].pc = "done"
                /\ req[r].status = 400
                /\ ~req[r].called
                /\ req[r].nEnrIns = 0
                /\ req[r].nPayIns = 0)
    /\ [][\A r \in Reqs :
            (req[r].kind = "idle" /\ req'[r].kind = "webhook" /\ req'[r].sig # "valid") =>
                (enrollments' = enrollments /\ payments' = payments)]_vars

\* A forged completed-checkout payload with a rejected signature was
\* answered with 400.
C8_Witness ==
    \E r \in Reqs :
        /\ req[r].kind = "webhook"
        /\ req[r].sig = "invalid"
        /\ req[r].evtype = "checkout.session.completed"
        /\ req[r].payload = "cs_forged"
        /\ req[r].status = 400

\* C9: every answered webhook delivery whose signature was accepted was
\* answered with 200 {received: true}, whatever the event and also when
\* the reconciler threw.
C9_VerifiedWebhookAcknowledged ==
    \A r \in Reqs :
        (req[r].kind = "webhook" /\ req[r].sig = "valid" /\ req[r].pc = "done") =>
            (req[r].status = 200 /\ req[r].body = "received" /\ req[r].nResp = 1)

\* A verified delivery whose reconciliation failed was acknowledged.
C9_Witness ==
    \E r \in Reqs :
        /\ req[r].kind = "webhook"
        /\ req[r].sig = "valid"
        /\ req[r].result = "threw"
        /\ req[r].status = 200

\* The price of a course of the table; -1 for a course it does not hold.
PriceOf(courseId) ==
    IF \E c \in Courses : c.id = courseId
        THEN (CHOOSE c \in Courses : c.id = courseId).price
        ELSE -1

\* An answered free-enrollment request that named a user and a course.
FreeAnswered(s) ==
    s.kind = "free" /\ s.pc = "done" /\ ~FreeMissing(s.userId, s.courseId)

\* C10 as stated: enrollFree on a course priced > 0 always fails with the
\* client error, without invoking the reconciler or creating an
\* Enrollment; on a course priced 0 it always succeeds, leaving an
\* Enrollment for (userId, courseId), and creates no Payment.
C10_AsStated ==
    \A r \in Reqs :
        FreeAnswered(req[r]) =>
            /\ PriceOf(req[r].courseId) > 0 =>
                  (req[r].status = 400 /\ ~req[r].called /\ req[r].nEnrIns = 0)
            /\ PriceOf(req[r].courseId) = 0 =>
                  /\ req[r].status = 200
                  /\ EnrollmentsOf(req[r].userId, req[r].courseId) # {}
                  /\ req[r].nPayIns = 0

\* C10 (amended): enrollFree on a course whose price is > 0 never invokes
\* the reconciler and creates no Enrollment, and fails with the client
\* error unless the course lookup itself fails (500); on a course whose
\* price is 0 it never creates a Payment, and it succeeds, leaving an
\* Enrollment for (userId, courseId), exactly when no store call of the
\* request fails (otherwise it answers 500).
C10_FreeCourseGate ==
    \A r \in Reqs :
        /\ req[r].kind = "free" => req[r].nPayIns = 0
        /\ FreeAnswered(req[r]) =>
            /\ PriceOf(req[r].courseId) > 0 =>
                  /\ ~req[r].called
                  /\ req[r].nEnrIns = 0
                  /\ req[r].status = (IF req[r].storeErr = "" THEN 400 ELSE 500)
            /\ PriceOf(req[r].courseId) = 0 =>
                  /\ req[r].status = (IF req[r].storeErr = "" THEN 200 ELSE 500)
                  /\ req[r].storeErr = "" =>
                        /\ req[r].called
                        /\ req[r].sessionId = "free-enrollment"
                        /\ \E e \in EnrollmentsOf(req[r].userId, req[r].courseId) :
                               e.id = req[r].enrollmentId

\* Both cases happened: a free enrollment in the paid course was refused
\* and one in the free course succeeded.
C10_Witness ==
    /\ \E r \in Reqs :
          /\ FreeAnswered(req[r])
          /\ req[r].courseId = "c1"
          /\ req[r].status = 400
    /\ \E r \in Reqs :
          /\ FreeAnswered(req[r])
          /\ req[r].courseId = "c0"
          /\ req[r].status = 200
          /\ req[r].nEnrIns = 1

----------------------------------------------------------------------------
\* The session the processor holds under an id: a set of one, or empty.
SessionById(id) == {x \in sessions : x.id = id}

\* Request r is a verification about to hear from the processor about a
\* session that is not paid.
VerifyingUnpaid(r) ==
    /\ req[r].kind = "verify"
    /\ req[r].pc = "v_retrieve"
    /\ \E x \in SessionById(req[r].sessionId) : x.payment_status # "paid"

\* C11: verify(sessionId) on a session whose payment status is not 'paid'
\* answers with a non-success result that carries the status observed, and
\* touches no store: the step that answers does not invoke the reconciler
\* and leaves the enrollment and the payment store as they were, and the
\* request has inserted nothing and met no store error. (The processor
\* call itself may throw, which is the generic verification failure.)
C11_UnpaidVerifyTouchesNothing ==
    /\ [](\A r \in Reqs :
            (req[r].kind = "verify" /\ req[r].body = "Payment not completed") =>
                /\ req[r].status = 200
                /\ req[r].paymentStatus = "unpaid"
                /\ ~req[r].called
                /\ req[r].storeErr = ""
                /\ req[r].nEnrIns = 0 /\ req[r].nPayIns = 0)
    /\ [][\A r \in Reqs :
            (VerifyingUnpaid(r) /\ req'[r] # req[r]) =>
                /\ enrollments' = enrollments /\ payments' = payments
                /\ req'[r].pc = "done"
                /\ ~req'[r].called
                /\ \/ req'[r].procErr
                   \/ /\ req'[r].body = "Payment not completed"
                      /\ \E x \in SessionById(req[r].sessionId) :
                            req'[r].paymentStatus = x.payment_status]_vars

\* A verification of the unpaid session was answered 'Payment not
\* completed' while the stores already held rows.
C11_Witness ==
    /\ enrollments # {} /\ payments # {}
    /\ \E r \in Reqs :
          /\ req[r].kind = "verify"
          /\ req[r].sessionId = "cs_u"
          /\ req[r].body = "Payment not completed"

----------------------------------------------------------------------------
\* The four answers of GET /api/verify-payment/:sessionId.
VerifyReconciled(s)  == s.status = 200 /\ s.body = "success"
VerifyNotPaid(s)     == s.status = 200 /\ s.body = "Payment not completed"
VerifyPaidFailed(s)  == s.status = 500 /\ s.body = "Failed to create enrollment record"
VerifyFetchFailed(s) == s.status = 500 /\ s.body = "Failed to verify payment"

\* How many of the four answers s is.
VerifyAnswers(s) ==
    Cardinality({k \in 1..4 : \/ k = 1 /\ VerifyReconciled(s)
                              \/ k = 2 /\ VerifyNotPaid(s)
                              \/ k = 3 /\ VerifyPaidFailed(s)
                              \/ k = 4 /\ VerifyFetchFailed(s)})

\* C12: an answered verification is exactly one of four answers, each for
\* its own case: success with the enrollment exactly when the session was
\* paid and the reconciler returned; 'Payment not completed' with the
\* status exactly when the processor answered and the session was not
\* paid; 'Failed to create enrollment record' exactly when the session was
\* paid and the reconciler threw; 'Failed to verify payment' exactly when
\* the processor call threw. The reconciler is invoked exactly when the
\* processor answered with a paid session.
C12_FourVerifyOutcomes ==
    /\ [](\A r \in Reqs :
            (req[r].kind = "verify" /\ req[r].pc = "done") =>
                /\ VerifyAnswers(req[r]) = 1
                /\ VerifyReconciled(req[r]) <=>
                       (req[r].called /\ req[r].result = "returned")
                /\ VerifyReconciled(req[r]) =>
                       \E e \in enrollments : e.id = req[r].enrollmentId
                /\ VerifyNotPaid(req[r]) <=> (~req[r].called /\ ~req[r].procErr)
                /\ VerifyNotPaid(req[r]) => req[r].paymentStatus # ""
                /\ VerifyPaidFailed(req[r]) <=>
                       (req[r].called /\ req[r].result = "threw")
                /\ VerifyFetchFailed(req[r]) <=> req[r].procErr)
    /\ [][\A r \in Reqs :
            (req[r].kind = "verify" /\ req[r].pc = "v_retrieve" /\ req'[r] # req[r]) =>
                (req'[r].called <=>
                    /\ ~req'[r].procErr
                    /\ \E x \in SessionById(req[r].sessionId) :
                          x.payment_status = "paid")]_vars

\* A verification of a paid session whose reconciler threw was answered
\* 'Failed to create enrollment record', and another verification was
\* answered with the success.
C12_Witness ==
    /\ \E r \in Reqs :
          /\ req[r].kind = "verify" /\ req[r].pc = "done"
          /\ req[r].result = "threw"
          /\ VerifyPaidFailed(req[r])
    /\ \E r \in Reqs :
          /\ req[r].kind = "verify" /\ req[r].pc = "done"
          /\ VerifyReconciled(req[r])

----------------------------------------------------------------------------
\* C13: one invocation of createEnrollmentWithPayment performs at most one
\* insert into enrollments and at most one into payments, on every path,
\* the failing ones included: no request ever counts more than one row
\* inserted per store, and every step adds to each store exactly the rows
\* the request taking the step counts for itself in that step.
C13_AtMostOneInsertPerStore ==
    /\ [](\A r \in Reqs : req[r].nEnrIns <= 1 /\ req[r].nPayIns <= 1)
    /\ [][/\ \A r \in Reqs :
               req'[r] # req[r] =>
                  /\ Cardinality(enrollments') =
                        Cardinality(enrollments) + req'[r].nEnrIns - req[r].nEnrIns
                  /\ Cardinality(payments') =
                        Cardinality(payments) + req'[r].nPayIns - req[r].nPayIns
          /\ req' = req => (enrollments' = enrollments /\ payments' = payments)]_vars

\* One invocation has inserted its enrollment and its payment and
\* returned, and another has failed at its enrollment insert.
C13_Witness ==
    /\ \E r \in Reqs :
          /\ req[r].result = "returned"
          /\ req[r].nEnrIns = 1 /\ req[r].nPayIns = 1
    /\ \E r \in Reqs :
          /\ req[r].result = "threw"
          /\ req[r].storeErr = "enrins"

----------------------------------------------------------------------------
\* C14: no operation updates or deletes an Enrollment or a Payment: across
\* every step of every handler (and of the processor), each row present
\* before the step is present after it with the same fields, so both
\* stores only grow.
C14_StoresOnlyGrow ==
    [][/\ enrollments \subseteq enrollments'
       /\ payments \subseteq payments']_vars

\* Both stores have grown twice while requests of every outcome ran: two
\* Enrollments and two Payments are present.
C14_Witness ==
    /\ Cardinality(enrollments) >= 2
    /\ Cardinality(payments) >= 2
    /\ \A r \in Reqs : req[r].pc = "done"

----------------------------------------------------------------------------
\* The id of the session a webhook or a verification request is about.
SessionOf(s) == IF s.kind = "webhook" THEN s.payload ELSE s.sessionId

\* Session x carries both identifiers and a positive total.
FullSession(x) ==
    /\ x.metadata.userId # Absent
    /\ x.metadata.courseId # Absent
    /\ x.amount_total > 0

\* Request r1 is a webhook or a verification that ran the reconciler for
\* session x with no store call failing.
PathRanFor(s, x) ==
    /\ s.kind \in {"webhook", "verify"}
    /\ ReconciledClean(s)
    /\ SessionOf(s) = x.id

\* C15: when requests do not overlap, once the verified webhook or the
\* verification has run the reconciler without a store failure for a paid
\* session that carries {courseId, userId} and a positive total, then,
\* whichever of the two ran first and however often either is repeated,
\* the stores hold exactly one Enrollment for (userId, courseId), which is
\* active, and exactly one Payment whose transaction reference is the
\* session id, which is completed and belongs to that Enrollment.
C15_PathsConverge ==
    \A r \in Reqs : \A x \in sessions :
        (PathRanFor(req[r], x) /\ FullSession(x)) =>
            LET es == EnrollmentsOf(x.metadata.userId, x.metadata.courseId)
                ps == {p \in payments : p.transaction_id = x.id}
            IN  /\ Cardinality(es) = 1
                /\ \A e \in es : e.status = "active"
                /\ Cardinality(ps) = 1
                /\ \A p \in ps : /\ p.status = "completed"
                                 /\ \E e \in es : p.enrollment_id = e.id

\* Both paths ran for one session: one of them inserted the Enrollment and
\* the Payment, the other one found both and inserted nothing.
C15_Witness ==
    \E r1, r2 \in Reqs : \E x \in sessions :
        /\ FullSession(x)
        /\ req[r1].kind = "webhook" /\ req[r2].kind = "verify"
        /\ PathRanFor(req[r1], x) /\ PathRanFor(req[r2], x)
        /\ req[r1].nEnrIns + req[r2].nEnrIns = 1
        /\ req[r1].nPayIns + req[r2].nPayIns = 1

----------------------------------------------------------------------------
\* C16: over a store that enforces uniqueness of (student, course), an
\* invocation whose Enrollment insert is rejected because a racing
\* invocation has inserted the pair first treats the conflict as 'already
\* enrolled': it returns the existing Enrollment of the pair to its caller
\* instead of failing.
C16_ConflictTreatedAsEnrolled ==
    \A r \in Reqs :
        (req[r].conflict /\ req[r].pc = "done") =>
            /\ req[r].result = "returned"
            /\ \E e \in EnrollmentsOf(req[r].userId, req[r].courseId) :
                   e.id = req[r].enrollmentId

----------------------------------------------------------------------------
\* The body of checkout request s lacks one of the four fields.
LacksCheckoutField(s) ==
    \/ s.courseId = ""
    \/ s.courseTitle = ""
    \/ s.coursePrice = PriceUndefined
    \/ s.userId = ""

\* C17: createCheckout with any of courseId, courseTitle, coursePrice or
\* userId missing is answered 400 'Missing required parameters' at once
\* and has no side effect: the processor is not called, no session is
\* created and no store is touched. With all four present, a coursePrice
\* of 0 included, the request goes on to the session creation, and the
\* session created carries the metadata {courseId, userId} of the request.
\* No step of a checkout request touches the stores.
C17_CheckoutParameters ==
    /\ [](\A r \in Reqs :
            req[r].kind = "checkout" =>
                /\ ~req[r].called
                /\ req[r].nEnrIns = 0 /\ req[r].nPayIns = 0 /\ req[r].storeErr = ""
                /\ LacksCheckoutField(req[r]) =>
                      /\ req[r].pc = "done"
                      /\ req[r].status = 400
                      /\ req[r].body = "Missing required parameters"
                      /\ req[r].sessionId = ""
                      /\ ~req[r].procErr
                /\ ~LacksCheckoutField(req[r]) =>
                      \/ req[r].pc = "c_create"
                      \/ /\ req[r].pc = "done"
                         /\ req[r].procErr
                         /\ req[r].status = 500
                      \/ /\ req[r].pc = "done"
                         /\ ~req[r].procErr
                         /\ req[r].status = 200
                         /\ \E x \in SessionById(req[r].sessionId) :
                               x.metadata = [courseId |-> req[r].courseId,
                                             userId   |-> req[r].userId])
    /\ [][\A r \in Reqs :
            (req'[r] # req[r] /\ req'[r].kind = "checkout") =>
                /\ enrollments' = enrollments /\ payments' = payments
                /\ LacksCheckoutField(req'[r]) => sessions' = sessions]_vars

\* A checkout with a price of 0 got its session, and a checkout without a
\* title was refused.
C17_Witness ==
    /\ \E r \in Reqs :
          /\ req[r].kind = "checkout"
          /\ req[r].coursePrice = 0
          /\ req[r].status = 200
          /\ SessionById(req[r].sessionId) # {}
    /\ \E r \in Reqs :
          /\ req[r].kind = "checkout"
          /\ req[r].courseTitle = ""
          /\ req[r].status = 400

----------------------------------------------------------------------------
\* C18: in every reachable state every Payment is well-formed: its amount
\* is > 0, its status is 'completed', its payment method is the processor
\* ('stripe'), its enrollment id is the id of an Enrollment in the store,
\* and its transaction reference is never the free-enrollment sentinel.
C18_PaymentsWellFormed ==
    \A p \in payments :
        /\ p.amount > 0
        /\ p.status = "completed"
        /\ p.payment_method = "stripe"
        /\ \E e \in enrollments : e.id = p.enrollment_id
        /\ p.transaction_id # "free-enrollment"

\* Payments of both branches are in the store: one was inserted with a
\* new Enrollment, one for an Enrollment that was found.
C18_Witness ==
    /\ \E p \in payments, r \in Reqs :
          /\ req[r].existing = 0 /\ req[r].nPayIns = 1
          /\ p.enrollment_id = req[r].enrollmentId
          /\ p.transaction_id = req[r].sessionId
    /\ \E p \in payments, r \in Reqs :
          /\ req[r].existing # 0 /\ req[r].nPayIns = 1
          /\ p.enrollment_id = req[r].existing
          /\ p.transaction_id = req[r].sessionId

----------------------------------------------------------------------------
\* Invocation s inserted its Enrollment and then had its Payment insert
\* fail, which it swallowed.
PaymentInsertSwallowed(s) ==
    /\ Reconciled(s)
    /\ s.nEnrIns = 1
    /\ s.storeErr = "newpay"
    /\ s.result = "returned"

\* C19: when requests do not overlap, after a reconciler run that created
\* the Enrollment but whose Payment insert failed, any later run with the
\* same (userId, courseId, amount > 0, paymentReference) whose store calls
\* all succeed leaves exactly one Payment for (enrollment, reference) and
\* still exactly one Enrollment for the pair.
C19_RetryRepairsPayment ==
    \A r1, r2 \in Reqs :
        ( /\ r1 < r2
          /\ PaymentInsertSwallowed(req[r1])
          /\ ReconciledClean(req[r2])
          /\ SameCall(req[r1], req[r2])
          /\ req[r2].amount > 0 ) =>
            /\ Cardinality(EnrollmentsOf(req[r2].userId, req[r2].courseId)) = 1
            /\ \A e \in EnrollmentsOf(req[r2].userId, req[r2].courseId) :
                   /\ e.id = req[r1].enrollmentId
                   /\ Cardinality(PaymentsOf(e.id, req[r2].sessionId)) = 1

\* The retry happened: the first run left an Enrollment without Payment,
\* the second found that Enrollment and inserted the Payment.
C19_Witness ==
    \E r1, r2 \in Reqs :
        /\ r1 < r2
        /\ PaymentInsertSwallowed(req[r1])
        /\ ReconciledClean(req[r2])
        /\ SameCall(req[r1], req[r2])
        /\ req[r2].existing = req[r1].enrollmentId
        /\ req[r2].nPayIns = 1
        /\ req[r2].nEnrIns = 0

----------------------------------------------------------------------------
\* Session x lacks courseId or userId in its metadata.
LacksMetadata(x) ==
    x.metadata.courseId = Absent \/ x.metadata.userId = Absent

\* The identifier a verification passes on for a metadata value.
PassedOn(v) == IF v = Absent THEN "" ELSE v

\* C20: for a paid session whose metadata lacks courseId or userId, the
\* webhook never invokes the reconciler and writes nothing (a verified one
\* is still acknowledged with 200), while the verification, once the
\* processor has answered, invokes the reconciler, with the empty string in
\* place of each missing identifier.
C20_MissingMetadataPathsDiffer ==
    \A r \in Reqs :
        /\ \A x \in SessionById(req[r].payload) :
              (req[r].kind = "webhook" /\ LacksMetadata(x)) =>
                  /\ ~req[r].called
                  /\ req[r].nEnrIns = 0 /\ req[r].nPayIns = 0
                  /\ req[r].storeErr = ""
                  /\ req[r].pc = "done"
                  /\ req[r].sig = "valid" => req[r].status = 200
        /\ \A x \in SessionById(req[r].sessionId) :
              (req[r].kind = "verify" /\ LacksMetadata(x)
                 /\ x.payment_status = "paid"
                 /\ req[r].pc # "v_retrieve" /\ ~req[r].procErr) =>
                  /\ req[r].called
                  /\ req[r].userId = PassedOn(x.metadata.userId)
                  /\ req[r].courseId = PassedOn(x.metadata.courseId)

\* Both happened for the paid session without userId: its verified
\* webhook was acknowledged without any write, and its verification
\* inserted an Enrollment whose student identifier is the empty string.
C20_Witness ==
    /\ \E r \in Reqs :
          /\ req[r].kind = "webhook" /\ req[r].sig = "valid"
          /\ req[r].evtype = "checkout.session.completed"
          /\ req[r].payload = "cs_x"
          /\ req[r].status = 200
    /\ \E r \in Reqs : \E e \in enrollments :
          /\ req[r].kind = "verify" /\ req[r].sessionId = "cs_x"
          /\ req[r].nEnrIns = 1
          /\ e.id = req[r].enrollmentId
          /\ e.student_id = ""

----------------------------------------------------------------------------
\* C21: whenever createEnrollmentWithPayment has returned, the Enrollment
\* it returned is in the store and is the one of exactly the requested
\* (userId, courseId). If an Enrollment of the pair existed at the lookup,
\* the id returned is that Enrollment's and the invocation has inserted no
\* Enrollment. The lookup that does not fail finds the Enrollment of the
\* pair when there is one, and none when there is none.
C21_ReturnedEnrollmentIsThePairs ==
    /\ [](\A r \in Reqs :
            (req[r].called /\ req[r].result = "returned") =>
                /\ \E e \in enrollments :
                      /\ e.id = req[r].enrollmentId
                      /\ e.student_id = req[r].userId
                      /\ e.course_id = req[r].courseId
                /\ req[r].existing # 0 =>
                      /\ req[r].enrollmentId = req[r].existing
                      /\ req[r].nEnrIns = 0
                /\ req[r].existing = 0 => req[r].nEnrIns = 1)
    /\ [][\A r \in Reqs :
            (req[r].pc = "r_lookup" /\ req'[r] # req[r] /\ req'[r].storeErr = "") =>
                LET es == EnrollmentsOf(req[r].userId, req[r].courseId)
                IN  /\ es = {} => (req'[r].existing = 0 /\ req'[r].pc = "r_insert")
                    /\ \A e \in es : req'[r].existing = e.id]_vars

\* One invocation inserted the Enrollment of a pair and returned it, and
\* another one found it at its lookup and returned the same Enrollment.
C21_Witness ==
    /\ \E r1, r2 \in Reqs :
          /\ req[r1].result = "returned" /\ req[r1].nEnrIns = 1
          /\ req[r2].result = "returned" /\ req[r2].existing # 0
          /\ req[r2].enrollmentId = req[r1].enrollmentId
          /\ SamePair(req[r1], req[r2])

----------------------------------------------------------------------------
\* C22: when every processor and store call eventually returns or errors,
\* every request to the checkout, webhook, verify-payment and
\* free-enrollment handlers runs to completion and sends exactly one
\* response: a request that has arrived is eventually answered, a handler
\* has completed exactly when it has sent one response, no request ever
\* counts more than one response, and an answered request takes no
\* further step.
C22_ExactlyOneResponse ==
    /\ [](\A r \in Reqs :
            /\ req[r].nResp <= 1
            /\ req[r].pc = "done" <=> req[r].nResp = 1
            /\ req[r].nResp = 1 => req[r].status \in {200, 400, 500})
    /\ [][\A r \in Reqs : req[r].nResp = 1 => req'[r] = req[r]]_vars
    /\ \A r \in Reqs :
          (req[r].pc # "idle") ~> (req[r].pc = "done" /\ req[r].nResp = 1)

\* A request that ran through the lookup, the enrollment insert and the
\* payment insert has sent its one response, and so has a request whose
\* reconciler threw.
C22_Witness ==
    /\ \E r \in Reqs :
          /\ req[r].nEnrIns = 1 /\ req[r].nPayIns = 1
          /\ req[r].pc = "done" /\ req[r].nResp = 1
    /\ \E r \in Reqs :
          /\ req[r].result = "threw"
          /\ req[r].pc = "done" /\ req[r].nResp = 1

====
